---- MODULE Spec2Model ----
(***************************************************************************)
(* Model of the Match Bingo user-analysis pipeline.                        *)
(*   batch entry point       : src/mb_task/main.py                         *)
(*   interactive entry point : src/mb_task/match_bingo_sample_data_analysis.py *)
(* A table is column oriented, as a pandas DataFrame is: a function from   *)
(* column names to equally long sequences of values.  Timestamps are       *)
(* integers counting ticks, TicksPerDay ticks to a day.  Floating point    *)
(* values are exact rationals extended with NaN and +/-inf (binary64       *)
(* rounding is not modelled).                                              *)
(***************************************************************************)
EXTENDS Integers, Sequences, FiniteSets, TLC

\* ------------------------------------------------------------------ bounds
MaxRows == 2
TicksPerDay == 2
MaxRuns == 2

\* ------------------------------------------------------- program constants
DaysPerMonth == 30
NumQuantiles == 4
BatchCutoff == 30
SliderMin == 7
SliderDefault == 30

\* ------------------------------------------------------- float arithmetic
Abs(x) == IF x < 0 THEN -x ELSE x

Sign(x) == IF x < 0 THEN -1 ELSE IF x > 0 THEN 1 ELSE 0

RECURSIVE GCD(_, _)
GCD(a, b) == IF b = 0 THEN a ELSE GCD(b, a % b)

NaN == [k |-> "nan", n |-> 0, d |-> 1]

Unset == [k |-> "unset", n |-> 0, d |-> 1]

Inf(s) == [k |-> "inf", n |-> s, d |-> 1]

\* the rational n/d, d # 0, in lowest terms with a positive denominator
Num(n, d) ==
    LET g == GCD(Abs(n), Abs(d))
        s == Sign(d)
    IN  [k |-> "num", n |-> (s * n) \div g, d |-> (s * d) \div g]

IsZero(a) == a.k = "num" /\ a.n = 0

FSign(a) == Sign(a.n)

\* IEEE division as numpy performs it on a float64 column: x/0 is +/-inf,
\* 0/0 is NaN, no exception
FDiv(a, b) ==
    IF a.k = "nan" \/ b.k = "nan" THEN NaN
    ELSE IF a.k = "inf" /\ b.k = "inf" THEN NaN
    ELSE IF a.k = "inf" THEN Inf(a.n * (IF FSign(b) < 0 THEN -1 ELSE 1))
    ELSE IF b.k = "inf" THEN Num(0, 1)
    ELSE IF IsZero(b) THEN (IF IsZero(a) THEN NaN ELSE Inf(FSign(a)))
    ELSE Num(a.n * b.d, a.d * b.n)

FMul(a, b) ==
    IF a.k = "nan" \/ b.k = "nan" THEN NaN
    ELSE IF a.k = "inf" \/ b.k = "inf"
         THEN (IF IsZero(a) \/ IsZero(b) THEN NaN ELSE Inf(FSign(a) * FSign(b)))
    ELSE Num(a.n * b.n, a.d * b.d)

FAdd(a, b) ==
    IF a.k = "nan" \/ b.k = "nan" THEN NaN
    ELSE IF a.k = "inf" /\ b.k = "inf" THEN (IF a.n = b.n THEN a ELSE NaN)
    ELSE IF a.k = "inf" THEN a
    ELSE IF b.k = "inf" THEN b
    ELSE Num(a.n * b.d + b.n * a.d, a.d * b.d)

\* Series.sum() in row order
RECURSIVE FSum(_)
FSum(s) == IF s = <<>> THEN Num(0, 1) ELSE FAdd(Head(s), FSum(Tail(s)))

NotNaN(a) == a.k # "nan"

\* Series.mean(): skipna=True, NaN for an empty or all-NaN column
Mean(s) ==
    LET vals == SelectSeq(s, NotNaN)
    IN  IF vals = <<>> THEN NaN ELSE FDiv(FSum(vals), Num(Len(vals), 1))

\* Series.sum() of a boolean column
RECURSIVE CountTrue(_)
CountTrue(s) ==
    IF s = <<>> THEN 0 ELSE (IF Head(s) THEN 1 ELSE 0) + CountTrue(Tail(s))

\* ------------------------------------------------------------ table helpers
Required == {"date_joined", "last_login_date", "total_deposit", "total_games_played"}

EmptyFrame == [c \in {} |-> <<>>]

\* len(df)
NRows(df) == IF DOMAIN df = {} THEN 0 ELSE Len(df[CHOOSE c \in DOMAIN df : TRUE])

\* df[c] = v : adds the column or overwrites it; every other column is kept
SetCol(df, c, v) == [x \in (DOMAIN df) \cup {c} |-> IF x = c THEN v ELSE df[x]]

\* the first column of cs that df lacks (the KeyError pandas raises), "" if none
RECURSIVE FirstMissing(_, _)
FirstMissing(df, cs) ==
    IF cs = <<>> THEN ""
    ELSE IF Head(cs) \notin DOMAIN df THEN Head(cs)
    ELSE FirstMissing(df, Tail(cs))

KeyError(c) == [type |-> "KeyError", col |-> c]

ValueError == [type |-> "ValueError", col |-> ""]

NoError == [type |-> "none", col |-> ""]

\* pd.to_datetime on a column of calendar dates: midnight of that day
ToDatetime(col) == [i \in 1..Len(col) |-> col[i] * TicksPerDay]

\* pd.Timedelta(days=n)
Timedelta(n) == n * TicksPerDay

\* Series.dt.days of a timedelta column: whole days, rounded towards -infinity
DtDays(td) == [i \in 1..Len(td) |-> td[i] \div TicksPerDay]

\* Series.clip(lower=lo)
ClipLower(col, lo) == [i \in 1..Len(col) |-> IF col[i] < lo THEN lo ELSE col[i]]

\* ---------------------------------------------------- derivation (stage 2)
\* main.py read_data_and_prepare, after the columns were found present
BatchDerive(file) ==
    LET dj     == ToDatetime(file["date_joined"])
        ll     == ToDatetime(file["last_login_date"])
        n      == Len(dj)
        days   == DtDays([i \in 1..n |-> ll[i] - dj[i]])
        months == [i \in 1..n |-> FDiv(Num(days[i], 1), Num(DaysPerMonth, 1))]
        rev    == [i \in 1..n |-> FDiv(Num(file["total_deposit"][i], 1), months[i])]
        d1     == SetCol(SetCol(file, "date_joined", dj), "last_login_date", ll)
        d2     == SetCol(d1, "cust_lifetime_days", days)
        d3     == SetCol(d2, "cust_lifetime_months", months)
    IN  SetCol(d3, "monthly_revenue", rev)

\* match_bingo_sample_data_analysis.py read_data_and_prepare; today is
\* st.session_state["as_of_ts"]
InteractiveDerive(file, today) ==
    LET dj     == ToDatetime(file["date_joined"])
        ll     == ToDatetime(file["last_login_date"])
        n      == Len(dj)
        days   == ClipLower(DtDays([i \in 1..n |-> today - dj[i]]), 1)
        months == [i \in 1..n |-> FDiv(Num(days[i], 1), Num(DaysPerMonth, 1))]
        rev    == [i \in 1..n |-> FDiv(Num(file["total_deposit"][i], 1), months[i])]
        d1     == SetCol(SetCol(file, "date_joined", dj), "last_login_date", ll)
        d2     == SetCol(d1, "lifetime_days", days)
        d3     == SetCol(d2, "lifetime_months", months)
    IN  SetCol(d3, "monthly_revenue", rev)

\* ------------------------------------------------------------ CLV (stage 3)
\* mutant: the mean monthly revenue times the first customer's lifetime
MutBatchAvgClv(df) ==
    IF NRows(df) = 0 THEN NaN
    ELSE FMul(Mean(df["monthly_revenue"]), df["cust_lifetime_months"][1])

\* main.py: (df['monthly_revenue'] * df['cust_lifetime_months']).mean()
BatchAvgClv(df) ==
    Mean([i \in 1..NRows(df) |->
            FMul(df["monthly_revenue"][i], df["cust_lifetime_months"][i])])

\* match_bingo_sample_data_analysis.py:
\* df['monthly_revenue'].mean() * df['cust_lifetime_months'].mean()
\* (evaluated only when df has a column cust_lifetime_months)
InteractiveAvgClv(df) ==
    FMul(Mean(df["monthly_revenue"]),
         Mean([i \in 1..NRows(df) |-> Num(df["cust_lifetime_months"][i], 1)]))

\* ---------------------------------------------------------- churn (stage 3)
\* mutant: <= in place of <
MutChurnFlags(lastLogin, limit) == [i \in 1..Len(lastLogin) |-> lastLogin[i] <= limit]

\* df["last_login_date"] < limit
ChurnFlags(lastLogin, limit) == [i \in 1..Len(lastLogin) |-> lastLogin[i] < limit]

\* mutant: shifts last_login_date in place by the cutoff before comparing
MutIdentifyChurnUsers(df, cutoff, today) ==
    LET shifted == [i \in 1..NRows(df) |-> df["last_login_date"][i] + Timedelta(cutoff)]
    IN  SetCol(SetCol(df, "last_login_date", shifted), "churned",
               [i \in 1..NRows(df) |-> shifted[i] < today])

\* main.py identify_churn_users; today is pd.Timestamp.today()
IdentifyChurnUsers(df, cutoff, today) ==
    SetCol(df, "churned", ChurnFlags(df["last_login_date"], today - Timedelta(cutoff)))

\* match_bingo_sample_data_analysis.py tag_churn; asOfTs is the session state
TagChurn(df, cutoff, asOfTs) ==
    SetCol(df, "churned", ChurnFlags(df["last_login_date"], asOfTs - Timedelta(cutoff)))

\* ------------------------------------------------------- quartiles (stage 3)
RECURSIVE Insert(_, _)
Insert(x, s) ==
    IF s = <<>> THEN <<x>>
    ELSE IF x <= Head(s) THEN <<x>> \o s
    ELSE <<Head(s)>> \o Insert(x, Tail(s))

RECURSIVE Sorted(_)
Sorted(s) == IF s = <<>> THEN <<>> ELSE Insert(Head(s), Sorted(Tail(s)))

\* the quantile k/NumQuantiles of the sorted column s with linear
\* interpolation, multiplied by NumQuantiles so that it stays an integer;
\* "nan" for an empty column
Quantile(s, k) ==
    IF Len(s) = 0 THEN "nan"
    ELSE LET pos  == (Len(s) - 1) * k
             lo   == (pos \div NumQuantiles) + 1
             hi   == IF lo < Len(s) THEN lo + 1 ELSE lo
             frac == pos % NumQuantiles
         IN  NumQuantiles * s[lo] + (s[hi] - s[lo]) * frac

\* the NumQuantiles + 1 bin edges qcut computes: Series.quantile at 0, 1/4, ..., 1
QuantileEdges(x) ==
    LET s == Sorted(x)
    IN  [k \in 1..(NumQuantiles + 1) |-> Quantile(s, k - 1)]

\* algos.unique: first occurrences, in order
RECURSIVE Unique(_)
Unique(s) ==
    IF s = <<>> THEN <<>>
    ELSE LET front == Unique(SubSeq(s, 1, Len(s) - 1))
             last  == s[Len(s)]
         IN  IF \E i \in 1..Len(front) : front[i] = last THEN front
             ELSE Append(front, last)

\* bins.searchsorted(v, side="left") for an edge sequence scaled by NumQuantiles,
\* then ids[x == bins[0]] = 1 (include_lowest)
BinId(bins, v) ==
    IF NumQuantiles * v = bins[1] THEN 1
    ELSE Cardinality({i \in 1..Len(bins) : bins[i] < NumQuantiles * v})

\* pd.qcut(x, 4, labels=[Q1..Q4], duplicates=dup) as _bins_to_cuts performs it:
\* codes[i] in 1..4 is the label of row i, 0 is a missing label
Qcut(x, dup) ==
    LET edges  == QuantileEdges(x)
        uniq   == Unique(edges)
        dupl   == Len(uniq) < Len(edges) /\ Len(edges) # 2
        bins   == IF dupl THEN uniq ELSE edges
    IN  IF dupl /\ dup = "raise" THEN [err |-> ValueError, codes |-> <<>>]
        ELSE IF NumQuantiles # Len(bins) - 1 THEN [err |-> ValueError, codes |-> <<>>]
        ELSE [err |-> NoError,
              codes |-> [i \in 1..Len(x) |->
                           LET id == BinId(bins, x[i])
                           IN  IF id = 0 \/ id = Len(bins) THEN 0 ELSE id]]

\* the positions of s holding v
Members(codes, v) == {i \in 1..Len(codes) : codes[i] = v}

\* the elements of col at the positions of idx, in row order
RECURSIVE Pick(_, _, _)
Pick(col, idx, i) ==
    IF i > Len(col) THEN <<>>
    ELSE (IF i \in idx THEN <<col[i]>> ELSE <<>>) \o Pick(col, idx, i + 1)

\* df.groupby(quartile)["total_deposit"].mean() over the four labels: NaN for a
\* label without rows
GroupMeans(codes, deposit) ==
    [q \in 1..NumQuantiles |->
        LET group == Pick(deposit, Members(codes, q), 1)
        IN  Mean([i \in 1..Len(group) |-> Num(group[i], 1)])]

\* ------------------------------------------------------------------ state
VARIABLES
    variant,      \* "batch" (main.py) or "interactive" (the streamlit script)
    uploaded,     \* interactive: whether the file_uploader holds a file
    file,         \* the table the loader reads, column name -> sequence
    as_of,        \* interactive: the date_input widget, a day number
    cutoff_days,  \* the churn cut-off in days
    now,          \* the wall clock, in ticks
    pc,           \* position in the script
    df,           \* the DataFrame being built
    avg_clv, num_churned, churn_rate, q_summary,
    out,          \* what has been presented so far
    err,          \* the exception that ended the run, NoError if none
    run,          \* number of the current run
    prev          \* results of the previous run

vars == <<variant, uploaded, file, as_of, cutoff_days, now, pc, df, avg_clv,
          num_churned, churn_rate, q_summary, out, err, run, prev>>

inputs == <<variant, uploaded, file, as_of, cutoff_days, now, run, prev>>

results == <<avg_clv, num_churned, churn_rate, q_summary>>

\* ------------------------------------------------------------ input domains
\* calendar dates are day numbers; every last login is on or after a join date
JoinChoices == {0, 1}

LoginChoices == {1, 2}

DepositChoices == {0, 60}

GameChoices == {1, 2}

ExtraMonthChoices == {2}

\* wall-clock instants from midnight of day BatchCutoff + 1 to the next midnight
NowChoices == {Timedelta(BatchCutoff + 1) + t : t \in 0..TicksPerDay}

\* an as-of date on or before every join date, and one SliderDefault days
\* after the latest login
AsOfChoices == {0, SliderDefault + 2}

CutoffChoices == {SliderMin, SliderDefault}

Restrict(f, S) == [c \in S |-> f[c]]

FullTables(n) ==
    [date_joined          : [1..n -> JoinChoices],
     last_login_date      : [1..n -> LoginChoices],
     total_deposit        : [1..n -> DepositChoices],
     total_games_played   : [1..n -> GameChoices],
     cust_lifetime_months : [1..n -> ExtraMonthChoices]]

\* the column sets of the files tried: the required columns, the required
\* columns less one, and the required columns plus cust_lifetime_months
BatchColumnSets == {Required} \cup {Required \ {c} : c \in Required}

InteractiveColumnSets == BatchColumnSets \cup {Required \cup {"cust_lifetime_months"}}

Files(colsets) ==
    {Restrict(t, cs) : t \in UNION {FullTables(n) : n \in 0..MaxRows}, cs \in colsets}

NoResults ==
    /\ avg_clv = Unset
    /\ num_churned = -1
    /\ churn_rate = Unset
    /\ q_summary = <<>>

NoPrev == [valid |-> FALSE, out |-> {}, err |-> NoError, avg_clv |-> Unset,
           num_churned |-> -1, churn_rate |-> Unset, q_summary |-> <<>>,
           churned |-> <<>>, file |-> EmptyFrame]

\* the state in which a run of the script starts
Fresh ==
    /\ pc = "read"
    /\ df = EmptyFrame
    /\ NoResults
    /\ out = {}
    /\ err = NoError

InitBatch ==
    /\ variant = "batch"
    /\ uploaded = TRUE
    /\ file \in Files(BatchColumnSets)
    /\ as_of = 0
    /\ cutoff_days = BatchCutoff
    /\ now \in NowChoices

InitInteractive ==
    /\ variant = "interactive"
    /\ uploaded \in BOOLEAN
    /\ file \in (IF uploaded THEN Files(InteractiveColumnSets) ELSE {EmptyFrame})
    /\ as_of \in AsOfChoices
    /\ cutoff_days \in CutoffChoices
    /\ now = Timedelta(BatchCutoff + 1)

Init ==
    /\ InitBatch \/ InitInteractive
    /\ Fresh
    /\ run = 1
    /\ prev = NoPrev

\* ------------------------------------------------------------ script steps
Abort(e) ==
    /\ pc' = "aborted"
    /\ err' = e

\* main.py:99 (read_data_and_prepare, lines 17-27)
BatchRead ==
    /\ variant = "batch" /\ pc = "read"
    /\ LET missing == FirstMissing(file, <<"date_joined", "last_login_date", "total_deposit">>)
       IN  IF missing # ""
           THEN Abort(KeyError(missing)) /\ UNCHANGED df
           ELSE df' = BatchDerive(file) /\ pc' = "clv" /\ UNCHANGED err
    /\ UNCHANGED <<inputs, results, out>>

\* mutant: prints the CLV as soon as it is computed
MutBatchClv ==
    /\ variant = "batch" /\ pc = "clv"
    /\ avg_clv' = BatchAvgClv(df)
    /\ out' = out \cup {"avg_clv"}
    /\ pc' = "churn"
    /\ UNCHANGED <<inputs, df, num_churned, churn_rate, q_summary, err>>

\* main.py:100
BatchClv ==
    /\ variant = "batch" /\ pc = "clv"
    /\ avg_clv' = BatchAvgClv(df)
    /\ pc' = "churn"
    /\ UNCHANGED <<inputs, df, num_churned, churn_rate, q_summary, out, err>>

\* main.py:101
BatchChurn ==
    /\ variant = "batch" /\ pc = "churn"
    /\ df' = IdentifyChurnUsers(df, cutoff_days, now)
    /\ pc' = "stats"
    /\ UNCHANGED <<inputs, results, out, err>>

\* mutant: divides by the number of active users
MutChurnRate(count, n) == FDiv(Num(count, 1), Num(n - count, 1))

\* count / len(df) on numpy scalars: 0/0 is NaN, not an exception
ChurnRate(count, n) == FDiv(Num(count, 1), Num(n, 1))

\* main.py:102-103
BatchStats ==
    /\ variant = "batch" /\ pc = "stats"
    /\ num_churned' = CountTrue(df["churned"])
    /\ churn_rate' = ChurnRate(CountTrue(df["churned"]), NRows(df))
    /\ pc' = "segment"
    /\ UNCHANGED <<inputs, df, avg_clv, q_summary, out, err>>

\* main.py:104 (user_segmentation, lines 41-47)
BatchSegment ==
    /\ variant = "batch" /\ pc = "segment"
    /\ IF "total_games_played" \notin DOMAIN df
       THEN Abort(KeyError("total_games_played")) /\ UNCHANGED <<df, q_summary>>
       ELSE LET r == Qcut(df["total_games_played"], "raise")
            IN  IF r.err # NoError
                THEN Abort(r.err) /\ UNCHANGED <<df, q_summary>>
                ELSE /\ df' = SetCol(df, "games_played_quartile", r.codes)
                     /\ q_summary' = GroupMeans(r.codes, df["total_deposit"])
                     /\ pc' = "hist"
                     /\ UNCHANGED err
    /\ UNCHANGED <<inputs, avg_clv, num_churned, churn_rate, out>>

Show(items, next) ==
    /\ out' = out \cup items
    /\ pc' = next
    /\ UNCHANGED <<inputs, df, results, err>>

\* main.py:106
BatchPlotJoinDates == variant = "batch" /\ pc = "hist" /\ Show({"join_hist"}, "bar")

\* main.py:107
BatchPlotQuartiles == variant = "batch" /\ pc = "bar" /\ Show({"quartile_chart"}, "describe")

\* main.py:108
BatchSummarise == variant = "batch" /\ pc = "describe" /\ Show({"describe"}, "present")

\* main.py:109
BatchPresent == variant = "batch" /\ pc = "present" /\ Show({"avg_clv", "churn"}, "done")

\* st.session_state["as_of_ts"] = pd.Timestamp(as_of)   (line 70)
AsOfTs == as_of * TicksPerDay

\* match_bingo_sample_data_analysis.py:75-77
InteractiveNoFile ==
    /\ variant = "interactive" /\ pc = "read" /\ ~uploaded
    /\ out' = out \cup {"upload_hint"}
    /\ pc' = "stopped"
    /\ UNCHANGED <<inputs, df, results, err>>

\* match_bingo_sample_data_analysis.py:79 (read_data_and_prepare, lines 19-32)
InteractiveRead ==
    /\ variant = "interactive" /\ pc = "read" /\ uploaded
    /\ LET missing == FirstMissing(file, <<"date_joined", "last_login_date", "total_deposit">>)
       IN  IF missing # ""
           THEN Abort(KeyError(missing)) /\ UNCHANGED df
           ELSE df' = InteractiveDerive(file, AsOfTs) /\ pc' = "churn" /\ UNCHANGED err
    /\ UNCHANGED <<inputs, results, out>>

\* match_bingo_sample_data_analysis.py:80
InteractiveTagChurn ==
    /\ variant = "interactive" /\ pc = "churn"
    /\ df' = TagChurn(df, cutoff_days, AsOfTs)
    /\ pc' = "clv"
    /\ UNCHANGED <<inputs, results, out, err>>

\* match_bingo_sample_data_analysis.py:81: the derivation made lifetime_months,
\* the estimator reads cust_lifetime_months
InteractiveClv ==
    /\ variant = "interactive" /\ pc = "clv"
    /\ IF "cust_lifetime_months" \notin DOMAIN df
       THEN Abort(KeyError("cust_lifetime_months")) /\ UNCHANGED avg_clv
       ELSE avg_clv' = InteractiveAvgClv(df) /\ pc' = "quartile" /\ UNCHANGED err
    /\ UNCHANGED <<inputs, df, num_churned, churn_rate, q_summary, out>>

\* match_bingo_sample_data_analysis.py:82 (quartile_summary, lines 46-54)
InteractiveQuartile ==
    /\ variant = "interactive" /\ pc = "quartile"
    /\ IF "total_games_played" \notin DOMAIN df
       THEN Abort(KeyError("total_games_played")) /\ UNCHANGED <<df, q_summary>>
       ELSE LET r == Qcut(df["total_games_played"], "drop")
            IN  IF r.err # NoError
                THEN Abort(r.err) /\ UNCHANGED <<df, q_summary>>
                ELSE /\ df' = SetCol(df, "games_quartile", r.codes)
                     /\ q_summary' = GroupMeans(r.codes, df["total_deposit"])
                     /\ pc' = "card1"
                     /\ UNCHANGED err
    /\ UNCHANGED <<inputs, avg_clv, num_churned, churn_rate, out>>

\* match_bingo_sample_data_analysis.py:86-90
InteractiveCohortCard ==
    variant = "interactive" /\ pc = "card1" /\ Show({"cohort_size"}, "card2")

\* match_bingo_sample_data_analysis.py:92-98
InteractiveClvCard ==
    variant = "interactive" /\ pc = "card2" /\ Show({"avg_clv"}, "card3")

\* match_bingo_sample_data_analysis.py:100-107
InteractiveChurnCard ==
    /\ variant = "interactive" /\ pc = "card3"
    /\ num_churned' = CountTrue(df["churned"])
    /\ churn_rate' = ChurnRate(CountTrue(df["churned"]), NRows(df))
    /\ out' = out \cup {"churn"}
    /\ pc' = "chart"
    /\ UNCHANGED <<inputs, df, avg_clv, q_summary, err>>

\* match_bingo_sample_data_analysis.py:111-121
InteractiveChart ==
    variant = "interactive" /\ pc = "chart" /\ Show({"quartile_chart"}, "tables")

\* match_bingo_sample_data_analysis.py:124-129
InteractiveTables ==
    variant = "interactive" /\ pc = "tables" /\ Show({"describe", "raw_data"}, "done")

Step ==
    \/ BatchRead
    \/ BatchClv
    \/ BatchChurn
    \/ BatchStats
    \/ BatchSegment
    \/ BatchPlotJoinDates
    \/ BatchPlotQuartiles
    \/ BatchSummarise
    \/ BatchPresent
    \/ InteractiveNoFile
    \/ InteractiveRead
    \/ InteractiveTagChurn
    \/ InteractiveClv
    \/ InteractiveQuartile
    \/ InteractiveCohortCard
    \/ InteractiveClvCard
    \/ InteractiveChurnCard
    \/ InteractiveChart
    \/ InteractiveTables

Next == Step

Spec == Init /\ [][Next]_vars

\* ------------------------------------------------- running the script again
Terminal == {"done", "aborted", "stopped"}

Churned(d) == IF "churned" \in DOMAIN d THEN d["churned"] ELSE <<>>

Snapshot ==
    [valid |-> TRUE, out |-> out, err |-> err, avg_clv |-> avg_clv,
     num_churned |-> num_churned, churn_rate |-> churn_rate,
     q_summary |-> q_summary, churned |-> Churned(df), file |-> file]

\* The script is started again on the same file with the same controls; the
\* wall clock has moved on.  Nothing of the previous run survives but what the
\* observer noted in prev.
Rerun ==
    /\ pc \in Terminal
    /\ run < MaxRuns
    /\ run' = run + 1
    /\ prev' = Snapshot
    /\ now' \in {t \in NowChoices : t >= now}
    /\ pc' = "read"
    /\ df' = EmptyFrame
    /\ avg_clv' = Unset /\ num_churned' = -1 /\ churn_rate' = Unset /\ q_summary' = <<>>
    /\ out' = {}
    /\ err' = NoError
    /\ UNCHANGED <<variant, uploaded, file, as_of, cutoff_days>>

NextRerun == Step \/ Rerun

SpecRerun == Init /\ [][NextRerun]_vars

\* ------------------------------------------- the three metrics in any order
Raised(e) == [k |-> e.type, n |-> 0, d |-> 1]

\* the derived table of a file that has every column the derivation reads
Derived(v, f, asOfTs) == IF v = "batch" THEN BatchDerive(f) ELSE InteractiveDerive(f, asOfTs)

\* calculate_avg_clv of either entry point: the value, or the exception raised
ClvResult(v, d) ==
    IF v = "batch" THEN BatchAvgClv(d)
    ELSE IF "cust_lifetime_months" \notin DOMAIN d THEN Raised(KeyError("cust_lifetime_months"))
    ELSE InteractiveAvgClv(d)

\* identify_churn_users / tag_churn of either entry point
ChurnResult(v, d, cutoff, wallClock, asOfTs) ==
    IF v = "batch" THEN IdentifyChurnUsers(d, cutoff, wallClock)
    ELSE TagChurn(d, cutoff, asOfTs)

QuartileColumn(v) == IF v = "batch" THEN "games_played_quartile" ELSE "games_quartile"

\* user_segmentation / quartile_summary of either entry point: the table and
\* the summary, or the table as it was and the exception raised
QuartileResult(v, d) ==
    LET r == Qcut(d["total_games_played"], IF v = "batch" THEN "raise" ELSE "drop")
    IN  IF r.err # NoError
        THEN [df |-> d, summary |-> <<Raised(r.err)>>]
        ELSE [df |-> SetCol(d, QuartileColumn(v), r.codes),
              summary |-> GroupMeans(r.codes, d["total_deposit"])]

InitOrder ==
    /\ \/ InitBatch
       \/ InitInteractive /\ uploaded
    /\ Required \subseteq DOMAIN file
    /\ pc = "metrics"
    /\ df = Derived(variant, file, AsOfTs)
    /\ NoResults
    /\ out = {}
    /\ err = NoError
    /\ run = 1
    /\ prev = NoPrev

OrderClv ==
    /\ pc = "metrics" /\ avg_clv = Unset
    /\ avg_clv' = ClvResult(variant, df)
    /\ UNCHANGED <<inputs, pc, df, num_churned, churn_rate, q_summary, out, err>>

OrderChurn ==
    /\ pc = "metrics" /\ num_churned = -1
    /\ df' = ChurnResult(variant, df, cutoff_days, now, AsOfTs)
    /\ num_churned' = CountTrue(df'["churned"])
    /\ churn_rate' = ChurnRate(CountTrue(df'["churned"]), NRows(df'))
    /\ UNCHANGED <<inputs, pc, avg_clv, q_summary, out, err>>

OrderQuartile ==
    /\ pc = "metrics" /\ q_summary = <<>>
    /\ LET r == QuartileResult(variant, df)
       IN  df' = r.df /\ q_summary' = r.summary
    /\ UNCHANGED <<inputs, pc, avg_clv, num_churned, churn_rate, out, err>>

NextOrder == OrderClv \/ OrderChurn \/ OrderQuartile

SpecOrder == InitOrder /\ [][NextOrder]_vars

\* ------------------------------------------------- CLV of a permuted table
Perms(n) == {p \in [1..n -> 1..n] : \A i, j \in 1..n : p[i] = p[j] => i = j}

PermuteRows(f, p) == [c \in DOMAIN f |-> [i \in 1..Len(f[c]) |-> f[c][p[i]]]]

\* loading, derivation and calculate_avg_clv of either entry point on file f
PipelineClv(v, f, asOfTs) ==
    LET missing == FirstMissing(f, <<"date_joined", "last_login_date", "total_deposit">>)
    IN  IF missing # "" THEN Raised(KeyError(missing))
        ELSE ClvResult(v, Derived(v, f, asOfTs))

\* neither the derivation nor the estimator reads the wall clock or the cutoff
InitPermute ==
    /\ variant \in {"batch", "interactive"}
    /\ uploaded = TRUE
    /\ file \in Files(IF variant = "batch" THEN BatchColumnSets ELSE InteractiveColumnSets)
    /\ as_of \in (IF variant = "batch" THEN {0} ELSE AsOfChoices)
    /\ cutoff_days = (IF variant = "batch" THEN BatchCutoff ELSE SliderDefault)
    /\ now = Timedelta(BatchCutoff + 1)
    /\ pc = "permute"
    /\ df = EmptyFrame
    /\ NoResults
    /\ out = {}
    /\ err = NoError
    /\ run = 1
    /\ prev = NoPrev

PermuteClv ==
    /\ pc = "permute"
    /\ \E p \in Perms(NRows(file)) :
          /\ file' = PermuteRows(file, p)
          /\ avg_clv' = PipelineClv(variant, file', AsOfTs)
    /\ prev' = [NoPrev EXCEPT !.valid = TRUE, !.file = file,
                              !.avg_clv = PipelineClv(variant, file, AsOfTs)]
    /\ pc' = "permuted"
    /\ UNCHANGED <<variant, uploaded, as_of, cutoff_days, now, df, num_churned,
                   churn_rate, q_summary, out, err, run>>

NextPermute == PermuteClv

SpecPermute == InitPermute /\ [][NextPermute]_vars

\* ------------------------------------------------------------------ claims
\* the reference timestamp of the churn comparison: the wall clock in the
\* batch script, the session's as-of timestamp in the interactive one
Reference == IF variant = "batch" THEN now ELSE AsOfTs

LifetimeDaysColumn(v) == IF v = "batch" THEN "cust_lifetime_days" ELSE "lifetime_days"

LifetimeMonthsColumn(v) == IF v = "batch" THEN "cust_lifetime_months" ELSE "lifetime_months"

\* everything the scripts present except the hint to upload a file
Presented == {"cohort_size", "avg_clv", "churn", "quartile_chart", "join_hist",
              "describe", "raw_data"}

\* C1: once the churn column exists, a record is churned if and only if its
\* last login lies strictly before reference - cutoff_days; a record exactly
\* cutoff_days before the reference is not churned.  Both entry points.
C1_ChurnStrict ==
    "churned" \in DOMAIN df =>
        \A i \in 1..NRows(file) :
            df["churned"][i] =
                (file["last_login_date"][i] * TicksPerDay + cutoff_days * TicksPerDay
                    < Reference)

\* C1 witness: a record exactly on the boundary is tagged active while another
\* record of the same table is tagged churned.
C1_Witness ==
    /\ "churned" \in DOMAIN df
    /\ \E i, j \in 1..NRows(file) :
          /\ file["last_login_date"][i] * TicksPerDay + cutoff_days * TicksPerDay = Reference
          /\ ~df["churned"][i]
          /\ df["churned"][j]

\* C2 (as claimed): whenever quartile bucketing has been applied to a
\* non-empty table it completed and its buckets partition the rows: every row
\* carries one of the four labels and between 1 and 4 buckets are populated.
C2_QuartilePartition ==
    (NRows(file) > 0 /\ (err = ValueError \/ QuartileColumn(variant) \in DOMAIN df)) =>
        /\ err = NoError
        /\ QuartileColumn(variant) \in DOMAIN df
        /\ \A i \in 1..NRows(file) : df[QuartileColumn(variant)][i] \in 1..NumQuantiles
        /\ Cardinality({df[QuartileColumn(variant)][i] : i \in 1..NRows(file)})
              \in 1..NumQuantiles

\* C3 (as claimed): once the CLV step of a run is over on a non-empty table
\* whose lifetimes are all at least one day, the CLV is mean(monthly_revenue) *
\* mean(lifetime months), taken over the lifetime-months column the derivation
\* produced.  Both entry points.
C3_ClvProductOfMeans ==
    (/\ NRows(file) > 0
     /\ "monthly_revenue" \in DOMAIN df
     /\ \A i \in 1..NRows(file) : df[LifetimeDaysColumn(variant)][i] >= 1
     /\ pc \notin {"read", "clv", "churn"} \/ (variant = "batch" /\ pc = "churn")) =>
        avg_clv = FMul(Mean(df["monthly_revenue"]),
                       Mean(df[LifetimeMonthsColumn(variant)]))

\* C4 (as claimed): after derivation every record has lifetime days >= 1, so
\* its lifetime months are not 0 and its monthly revenue is a finite quotient.
C4_LifetimeFloor ==
    LifetimeDaysColumn(variant) \in DOMAIN df =>
        \A i \in 1..NRows(file) :
            /\ df[LifetimeDaysColumn(variant)][i] >= 1
            /\ ~IsZero(df[LifetimeMonthsColumn(variant)][i])
            /\ df["monthly_revenue"][i].k = "num"

\* C5 (as claimed): a run on a file of zero rows ends in EmptyDatasetError and
\* has presented no metric and no chart.
C5_EmptyDatasetError ==
    (uploaded /\ Required \subseteq DOMAIN file /\ NRows(file) = 0 /\ pc \in Terminal) =>
        /\ err.type = "EmptyDatasetError"
        /\ out \cap Presented = {}

\* C6: nothing is presented unless loading, derivation, CLV, churn tagging and
\* quartile bucketing have all completed without error, and a run that failed
\* has presented nothing.
C6_AllOrNothing ==
    /\ out \cap Presented # {} =>
          /\ err = NoError
          /\ LifetimeDaysColumn(variant) \in DOMAIN df
          /\ avg_clv # Unset
          /\ "churned" \in DOMAIN df
          /\ QuartileColumn(variant) \in DOMAIN df /\ Len(q_summary) = NumQuantiles
    /\ err # NoError => pc = "aborted" /\ out \cap Presented = {}

\* C6 witness: a file without total_games_played fails in the last metric,
\* after CLV and churn were computed, and nothing has been presented.
C6_Witness ==
    /\ err = KeyError("total_games_played")
    /\ pc = "aborted"
    /\ NRows(file) > 0
    /\ avg_clv # Unset
    /\ "churned" \in DOMAIN df
    /\ out = {}

\* C7 (as claimed): a second run on the same file with the same as-of date and
\* cutoff ends with the same output as the first, whatever the wall clock: the
\* same items presented, with the same values, or the same error.
C7_Idempotent ==
    (prev.valid /\ pc \in Terminal) =>
        /\ out = prev.out
        /\ err = prev.err
        /\ "avg_clv" \in out => avg_clv = prev.avg_clv
        /\ "churn" \in out =>
              num_churned = prev.num_churned /\ churn_rate = prev.churn_rate
        /\ "quartile_chart" \in out => q_summary = prev.q_summary
        /\ "describe" \in out => Churned(df) = prev.churned

\* C8: on a non-empty table the churn count lies between 0 and the row count
\* and the churn rate is count / rows, a number between 0 and 1.
C8_ChurnRateRange ==
    (NRows(file) > 0 /\ churn_rate # Unset) =>
        /\ 0 <= num_churned /\ num_churned <= NRows(file)
        /\ churn_rate.k = "num"
        /\ 0 <= churn_rate.n /\ churn_rate.n <= churn_rate.d
        /\ churn_rate.n * NRows(file) = num_churned * churn_rate.d

\* C8 witness: a rate strictly between 0 and 1 has been computed.
C8_Witness ==
    /\ churn_rate.k = "num"
    /\ 0 < churn_rate.n /\ churn_rate.n < churn_rate.d

\* C9: in whatever order the three metrics are applied to the derived table,
\* every column of the derived table keeps its values and each metric's result
\* is the one it yields on the derived table as derived.
C9_MetricsIndependent ==
    pc = "metrics" =>
        LET d0 == Derived(variant, file, AsOfTs)
            c0 == ChurnResult(variant, d0, cutoff_days, now, AsOfTs)["churned"]
        IN  /\ \A c \in DOMAIN d0 : c \in DOMAIN df /\ df[c] = d0[c]
            /\ avg_clv # Unset => avg_clv = ClvResult(variant, d0)
            /\ num_churned # -1 =>
                  /\ Churned(df) = c0
                  /\ num_churned = CountTrue(c0)
                  /\ churn_rate = ChurnRate(CountTrue(c0), NRows(d0))
            /\ q_summary # <<>> => q_summary = QuartileResult(variant, d0).summary

\* C9 witness: all three metrics were computed on a table with churned users
\* and a completed bucketing.
C9_Witness ==
    /\ pc = "metrics"
    /\ avg_clv.k = "num" /\ avg_clv.n > 0
    /\ num_churned > 0
    /\ Len(q_summary) = NumQuantiles
    /\ QuartileColumn(variant) \in DOMAIN df

====
